---- MODULE Spec2Model ----
(***************************************************************************)
(* Model of alf/algorithms/agent.py: the Agent that integrates a policy    *)
(* algorithm, an optional intrinsic curiosity module (ICM) and an optional *)
(* entropy-target algorithm.                                               *)
(*                                                                         *)
(* Tensors are modelled by integers.  Rewards are counted in tenths, so    *)
(* the reward 5.0 is 50 and the intrinsic reward 0.2 is 2; coefficients    *)
(* are whole numbers.                                                      *)
(***************************************************************************)
EXTENDS Integers, Sequences, FiniteSets

\* ------------------------------------------------------------------ bounds
\* observations, actions and sub-algorithm states range over 0..MaxObs
MaxObs == 1
\* external and intrinsic rewards range over 0..MaxReward
MaxReward == 1
\* reward coefficients range over 0..MaxCoef
MaxCoef == 1

Obs == 0..MaxObs
Rewards == 0..MaxReward
Coefs == 0..MaxCoef

\* ------------------------------------------------------------------ values
\* `()`, the default of every field of AgentState, AgentInfo, AgentLossInfo
Empty == [t |-> "Empty", v |-> 0]
\* a tf.Tensor holding v
Tensor(v) == [t |-> "Tensor", v |-> v]
\* isinstance(x, tf.Tensor)
IsTensor(x) == x.t = "Tensor"
\* Python's None, for an absent module, optimizer, step or experience
None == [name |-> "None"]

AgentState == [rl |-> Empty, icm |-> Empty]
AgentInfo == [rl |-> Empty, icm |-> Empty, entropy_target |-> Empty]
AgentLossInfo == [rl |-> Empty, icm |-> Empty, entropy_target |-> Empty]
LossInfo(loss, scalar_loss, extra) == [loss |-> loss, scalar_loss |-> scalar_loss, extra |-> extra]

\* a Python object holding a number: id is its identity, val its value
Object(id, val) == [id |-> id, val |-> val]

\* --------------------------------------------------------- sub-algorithms
\* A network or algorithm handed to the Agent; optimizer is None when the
\* module brings no optimizer of its own.
Module(name, optimizer) == [name |-> name, optimizer |-> optimizer]
Optimizer(name) == [name |-> name]

\* the state spec a sub-algorithm declares
StateSpec(name) == [t |-> "Spec", v |-> name]

\* encoding_network(observation): some transformation that is not the identity
encoding_network(observation) == (observation + 1) % (MaxObs + 1)

\* rl_algorithm.predict(time_step, state): a deterministic policy
rl_predict(observation, state) ==
    [action |-> (observation + state.v) % (MaxObs + 1),
     state |-> Tensor((state.v + 1) % (MaxObs + 1)),
     call |-> [alg |-> "rl", op |-> "predict", observation |-> observation, state |-> state]]

\* rl_algorithm.rollout(time_step, state)
rl_rollout(observation, state) ==
    [action |-> (observation + state.v) % (MaxObs + 1),
     state |-> Tensor((state.v + 1) % (MaxObs + 1)),
     info |-> [t |-> "ActorCriticInfo", v |-> 0],
     call |-> [alg |-> "rl", op |-> "rollout", observation |-> observation, state |-> state]]

\* icm.train_step((observation, prev_action), state, calc_intrinsic_reward):
\* the new state is the feature of the observation; the reward is computed
\* (here: the value i the module arrives at) only when asked for, and is the
\* placeholder () otherwise.
icm_train_step(observation, prev_action, state, calc_intrinsic_reward, i) ==
    [state |-> Tensor(observation),
     info |-> [reward |-> IF calc_intrinsic_reward THEN Tensor(i) ELSE Empty,
               loss |-> Tensor(2)],
     call |-> [alg |-> "icm", op |-> "train_step", observation |-> observation,
               state |-> state, calc_intrinsic_reward |-> calc_intrinsic_reward]]

\* entropy_target_algorithm.train_step(action)
et_train_step(action) ==
    [info |-> [t |-> "EntropyTargetInfo", v |-> 5],
     call |-> [alg |-> "entropy_target", op |-> "train_step", action |-> action]]

\* What a sub-algorithm's calc_loss fills in: its loss, its scalar_loss, both,
\* or neither (every field of its LossInfo left at the default).
SubLossInfo(shape, value, extra) ==
    LossInfo(IF shape \in {"loss", "both"} THEN Tensor(value) ELSE Empty,
             IF shape \in {"scalar_loss", "both"} THEN Tensor(value + 1) ELSE Empty,
             IF shape = "neither" THEN Empty ELSE extra)

\* the shapes of the LossInfo the three sub-algorithms return
LossProfiles ==
    {[rl |-> "loss", icm |-> "scalar_loss", entropy_target |-> "loss"],
     [rl |-> "both", icm |-> "both", entropy_target |-> "both"],
     [rl |-> "neither", icm |-> "both", entropy_target |-> "scalar_loss"],
     [rl |-> "scalar_loss", icm |-> "neither", entropy_target |-> "neither"]}

\* algorithm.calc_loss(info) of the sub-algorithm called `name`, on the
\* argument the Agent hands it: the training_info for the policy (whose loss
\* depends on the reward in it), the sub-algorithm's own info for the others.
sub_calc_loss(name, arg, profile) ==
    IF name = "rl"
    THEN SubLossInfo(profile.rl, 1 + arg.reward.val,
                     [t |-> "ActorCriticLossInfo", v |-> 0])
    ELSE IF name = "icm"
    THEN SubLossInfo(profile.icm, arg.loss.v, [t |-> "ICMInfo", v |-> 0])
    ELSE SubLossInfo(profile.entropy_target, arg.v,
                     [t |-> "EntropyTargetLossInfo", v |-> 0])

\* rl_algorithm.preprocess_experience(exp): the base class returns exp
rl_preprocess_experience(exp) == exp

\* ------------------------------------------------------------ construction
\* _add_algorithm with `module_sets.append([algorithm])` forgotten: the
\* algorithm's optimizer is registered, the algorithm joins the shared group
_add_algorithm_shared(registry, algorithm) ==
    IF algorithm # None
    THEN IF algorithm.optimizer # None
         THEN [optimizers |-> Append(registry.optimizers, algorithm.optimizer),
               module_sets |-> [registry.module_sets EXCEPT ![1] = Append(@, algorithm)]]
         ELSE [registry EXCEPT !.module_sets[1] = Append(@, algorithm)]
    ELSE registry

\* Agent.__init__._add_algorithm, on registry = (optimizers, module_sets)
_add_algorithm(registry, algorithm) ==
    IF algorithm # None
    THEN IF algorithm.optimizer # None
         THEN [optimizers |-> Append(registry.optimizers, algorithm.optimizer),
               module_sets |-> Append(registry.module_sets, <<algorithm>>)]
         ELSE [registry EXCEPT !.module_sets[1] = Append(@, algorithm)]
    ELSE registry

\* Agent.__init__: the fields of the constructed Agent
AgentInit(args) ==
    LET registry0 == [optimizers |-> <<args.optimizer>>,
                      module_sets |-> << <<args.encoding_network>> >>]
        rl_algorithm == Module("rl", args.rl_optimizer)
        train_state_spec0 == [AgentState EXCEPT !.rl = StateSpec("rl.train_state_spec")]
        predict_state_spec == [AgentState EXCEPT !.rl = StateSpec("rl.predict_state_spec")]
        registry1 == _add_algorithm(registry0, rl_algorithm)
        icm == args.intrinsic_curiosity_module
        train_state_spec == IF icm # None
                            THEN [train_state_spec0 EXCEPT !.icm = StateSpec("icm.train_state_spec")]
                            ELSE train_state_spec0
        registry2 == IF icm # None THEN _add_algorithm(registry1, icm) ELSE registry1
        entropy_target_algorithm == IF args.enforce_entropy_target
                                    THEN Module("entropy_target", args.entropy_target_optimizer)
                                    ELSE None
        registry3 == IF args.enforce_entropy_target
                     THEN _add_algorithm(registry2, entropy_target_algorithm)
                     ELSE registry2
    IN [optimizers |-> registry3.optimizers,
        module_sets |-> registry3.module_sets,
        predict_state_spec |-> predict_state_spec,
        train_state_spec |-> train_state_spec,
        rl_algorithm |-> rl_algorithm,
        entropy_target_algorithm |-> entropy_target_algorithm,
        encoding_network |-> args.encoding_network,
        intrinsic_reward_coef |-> args.intrinsic_reward_coef,
        extrinsic_reward_coef |-> args.extrinsic_reward_coef,
        icm |-> icm]

\* the optimizer a sub-algorithm may bring: none, or one of its own
OwnOptimizer(name) == {None, Optimizer(name)}

\* the constructor arguments
CtorArgs ==
    [optimizer : {Optimizer("primary")},
     encoding_network : {None, Module("encoding_network", None)},
     rl_optimizer : OwnOptimizer("rl_optimizer"),
     intrinsic_curiosity_module :
         {None} \cup {Module("icm", o) : o \in OwnOptimizer("icm_optimizer")},
     enforce_entropy_target : BOOLEAN,
     entropy_target_optimizer : OwnOptimizer("entropy_target_optimizer"),
     intrinsic_reward_coef : Coefs,
     extrinsic_reward_coef : Coefs]

\* ---------------------------------------------------------------- methods
\* Agent._encode
_encode(self, time_step) ==
    IF self.encoding_network # None
    THEN encoding_network(time_step.observation)
    ELSE time_step.observation

\* the call of the encoder, as logged by the operation that makes it
Call(alg, op) == [alg |-> alg, op |-> op]

\* the encoder's call, when there is an encoder
EncodeCalls(self) ==
    IF self.encoding_network # None THEN <<Call("encoding_network", "call")>> ELSE <<>>

\* predict that also steps the curiosity module, as rollout does
predict_with_icm(self, time_step, state) ==
    LET observation == _encode(self, time_step)
        icm_step == icm_train_step(observation, 0, state.icm, TRUE, 0)
        rl_step == rl_predict(observation, state.rl)
        new_state == [AgentState EXCEPT !.rl = rl_step.state]
    IN [action |-> rl_step.action,
        state |-> IF self.icm # None THEN [new_state EXCEPT !.icm = icm_step.state]
                  ELSE new_state,
        info |-> Empty,
        calls |-> EncodeCalls(self)
                  \o (IF self.icm # None THEN <<icm_step.call>> ELSE <<>>)
                  \o <<rl_step.call>>]

\* Agent.predict: the PolicyStep returned and the sub-algorithm calls made
predict(self, time_step, state) ==
    LET observation == _encode(self, time_step)
        rl_step == rl_predict(observation, state.rl)
        new_state == [AgentState EXCEPT !.rl = rl_step.state]
    IN [action |-> rl_step.action, state |-> new_state, info |-> Empty,
        calls |-> EncodeCalls(self) \o <<rl_step.call>>]

\* the flag with the negation forgotten
calc_intrinsic_reward_same(with_experience) == with_experience

\* Agent.rollout: the calc_intrinsic_reward argument of icm.train_step
calc_intrinsic_reward(with_experience) == ~with_experience

\* the states with `new_state._replace(rl=rl_step.state)` forgotten
rollout_state_no_rl(new_state, rl_step) == new_state

\* Agent.rollout: the new state once the policy has stepped
rollout_state(new_state, rl_step) == [new_state EXCEPT !.rl = rl_step.state]

\* Agent.rollout; i is the intrinsic reward the curiosity module arrives at
\* when it computes one
rollout(self, time_step, state, with_experience, i) ==
    LET observation == _encode(self, time_step)
        icm_step == icm_train_step(observation, time_step.prev_action, state.icm,
                                   calc_intrinsic_reward(with_experience), i)
        has_icm == self.icm # None
        info1 == IF has_icm THEN [AgentInfo EXCEPT !.icm = icm_step.info] ELSE AgentInfo
        new_state1 == IF has_icm THEN [AgentState EXCEPT !.icm = icm_step.state] ELSE AgentState
        rl_step == rl_rollout(observation, state.rl)
        new_state == rollout_state(new_state1, rl_step)
        info2 == [info1 EXCEPT !.rl = rl_step.info]
        has_et == self.entropy_target_algorithm # None
        et_step == et_train_step(rl_step.action)
        info == IF has_et THEN [info2 EXCEPT !.entropy_target = et_step.info] ELSE info2
    IN [action |-> rl_step.action, state |-> new_state, info |-> info,
        calls |-> EncodeCalls(self)
                  \o (IF has_icm THEN <<icm_step.call>> ELSE <<>>)
                  \o <<rl_step.call>>
                  \o (IF has_et THEN <<et_step.call>> ELSE <<>>)]

\* add_reward_summary(name, value), as a record of the summary written
Summary(name, value) == [name |-> name, value |-> value]

\* the intrinsic term with the coefficient forgotten
intrinsic_term_no_coef(self, info) == info.icm.reward.v

\* Agent.calc_training_reward: self._intrinsic_reward_coef * info.icm.reward
intrinsic_term(self, info) == self.intrinsic_reward_coef * info.icm.reward.v

\* the test on the values of the two rewards instead of their identities
reward_modified_by_value(reward, external_reward) == reward.val # external_reward.val

\* Agent.calc_training_reward: id(reward) != id(external_reward)
reward_modified(reward, external_reward) == reward.id # external_reward.id

\* Agent.calc_training_reward.  A tf.Tensor (like a Python float) is
\* immutable, so `reward *= c` and `reward += x` each bind reward to a new
\* object.  With a curiosity module and info.icm.reward the placeholder (),
\* `self._intrinsic_reward_coef * info.icm.reward` raises TypeError.
calc_training_reward(self, external_reward, info) ==
    LET scaled == IF self.extrinsic_reward_coef # 1
                  THEN Object(external_reward.id + 1,
                              external_reward.val * self.extrinsic_reward_coef)
                  ELSE external_reward
        has_icm == self.icm # None
        icm_summary == IF has_icm THEN <<Summary("reward/icm", info.icm.reward)>> ELSE <<>>
    IN IF has_icm /\ ~IsTensor(info.icm.reward)
       THEN [status |-> "TypeError", reward |-> None, summaries |-> icm_summary]
       ELSE LET reward == IF has_icm
                          THEN Object(scaled.id + 1,
                                      scaled.val + intrinsic_term(self, info))
                          ELSE scaled
                overall == IF reward_modified(reward, external_reward)
                           THEN <<Summary("reward/overall", Tensor(reward.val))>>
                           ELSE <<>>
            IN [status |-> "ok", reward |-> reward, summaries |-> icm_summary \o overall]

\* _add that keeps only the later loss when both are tensors
_add_last(x, y) ==
    IF ~IsTensor(y) THEN x ELSE y

\* Agent.calc_loss._add
_add(x, y) ==
    IF ~IsTensor(y) THEN x
    ELSE IF ~IsTensor(x) THEN y
    ELSE Tensor(x.v + y.v)

\* _update_loss that sums the losses and leaves loss_info.extra as it was
_update_loss_no_extra(loss_info, training_info, name, algorithm, profile) ==
    IF algorithm = None
    THEN loss_info
    ELSE LET new_loss_info == sub_calc_loss(name, training_info.info[name], profile)
         IN LossInfo(_add(loss_info.loss, new_loss_info.loss),
                     _add(loss_info.scalar_loss, new_loss_info.scalar_loss),
                     loss_info.extra)

\* Agent.calc_loss._update_loss
_update_loss(loss_info, training_info, name, algorithm, profile) ==
    IF algorithm = None
    THEN loss_info
    ELSE LET new_loss_info == sub_calc_loss(name, training_info.info[name], profile)
         IN LossInfo(_add(loss_info.loss, new_loss_info.loss),
                     _add(loss_info.scalar_loss, new_loss_info.scalar_loss),
                     [loss_info.extra EXCEPT ![name] = new_loss_info.extra])

\* Agent.calc_loss: the LossInfo returned, the training_info handed to the
\* policy's calc_loss, the summaries written, and what each sub-algorithm
\* that takes part returned
calc_loss(self, training_info, profile) ==
    LET substitute == self.icm # None /\ IsTensor(training_info.info.icm.reward)
        composed == calc_training_reward(self, training_info.reward, training_info.info)
        training_info1 == IF substitute
                          THEN [training_info EXCEPT !.reward = composed.reward]
                          ELSE training_info
        rl_arg == [training_info1 EXCEPT !.info = training_info1.info.rl]
        rl_loss_info == sub_calc_loss("rl", rl_arg, profile)
        loss_info0 == [rl_loss_info EXCEPT !.extra = [AgentLossInfo EXCEPT !.rl = rl_loss_info.extra]]
        loss_info1 == _update_loss(loss_info0, training_info1, "icm", self.icm, profile)
        loss_info2 == _update_loss(loss_info1, training_info1, "entropy_target",
                                   self.entropy_target_algorithm, profile)
    IN [loss_info |-> loss_info2,
        rl_training_info |-> rl_arg,
        summaries |-> IF substitute THEN composed.summaries ELSE <<>>,
        returned |-> [rl |-> rl_loss_info,
                      icm |-> IF self.icm # None
                              THEN sub_calc_loss("icm", training_info1.info.icm, profile)
                              ELSE None,
                      entropy_target |-> IF self.entropy_target_algorithm # None
                                         THEN sub_calc_loss("entropy_target",
                                                            training_info1.info.entropy_target,
                                                            profile)
                                         ELSE None]]

\* preprocess_experience that hands the experience on with its reward as stored
preprocess_experience_as_stored(self, exp) ==
    [status |-> "ok", exp |-> rl_preprocess_experience(exp), summaries |-> <<>>]

\* Agent.preprocess_experience
preprocess_experience(self, exp) ==
    LET composed == calc_training_reward(self, exp.reward, exp.info)
    IN IF composed.status # "ok"
       THEN [status |-> composed.status, exp |-> None, summaries |-> composed.summaries]
       ELSE [status |-> "ok",
             exp |-> rl_preprocess_experience([exp EXCEPT !.reward = composed.reward]),
             summaries |-> composed.summaries]

\* ------------------------------------------------------------------ state
VARIABLES
    args,    \* the arguments the Agent is constructed with
    agent,   \* the fields of the Agent (self); None until __init__ has run
    step,    \* the training record of the last rollout (None when there is none)
    exp,     \* the stored experience awaiting replay (None when there is none)
    ret      \* the last operation: its name, its arguments and what it returned

vars == <<args, agent, step, exp, ret>>

\* The constructor arguments of the agents that are trained: sub-algorithms
\* that bring no optimizer (no operation after __init__ reads the optimizers),
\* and the default intrinsic_reward_coef when there is no curiosity module.
TrainArgs ==
    {a \in CtorArgs :
        /\ a.rl_optimizer = None
        /\ a.entropy_target_optimizer = None
        /\ a.intrinsic_curiosity_module \in {None, Module("icm", None)}
        /\ (a.intrinsic_curiosity_module = None => a.intrinsic_reward_coef = 1)}

\* the state a driver starts an episode with, shaped like state_spec
ZeroState(state_spec) ==
    [f \in DOMAIN state_spec |-> IF state_spec[f] = Empty THEN Empty ELSE Tensor(0)]

\* the AgentStates the driver may pass to predict: the initial state, or the
\* state the last predict returned
PredictStates ==
    {ZeroState(agent.predict_state_spec)}
        \cup (IF ret.op = "predict" THEN {ret.policy_step.state} ELSE {})

\* the AgentStates the driver may pass to rollout: the initial state, or the
\* state the last rollout returned
TrainStates ==
    {ZeroState(agent.train_state_spec)}
        \cup (IF ret.op = "rollout" THEN {ret.policy_step.state} ELSE {})

\* the action the driver reports as prev_action
PrevAction == IF ret.op = "rollout" THEN ret.policy_step.action ELSE 0

\* the intrinsic rewards the curiosity module may arrive at
IntrinsicRewards == IF agent.icm # None THEN Rewards ELSE {0}

\* what the driver remembers of a step as it was collected
Collected(reward, info) ==
    [reward |-> reward, intrinsic |-> IF agent.icm # None THEN info.icm.reward ELSE Empty]

InitNew(arguments) ==
    /\ args \in arguments
    /\ agent = None
    /\ step = None
    /\ exp = None
    /\ ret = [op |-> "None"]

Init == InitNew(TrainArgs)

\* Agent(...)
Construct ==
    /\ agent = None
    /\ agent' = AgentInit(args)
    /\ ret' = [op |-> "__init__"]
    /\ UNCHANGED <<args, step, exp>>

\* predict(time_step, state)
Predict ==
    /\ agent # None
    /\ \E observation \in Obs, state \in PredictStates :
        ret' = [op |-> "predict", observation |-> observation, state |-> state,
                policy_step |-> predict(agent, [observation |-> observation], state)]
    /\ UNCHANGED <<args, agent, step, exp>>

\* rollout(time_step, state) while collecting: with_experience is False.  The
\* driver collects when no stored experience is waiting to be replayed.
Rollout ==
    /\ agent # None
    /\ exp = None
    /\ \E observation \in Obs, reward \in Rewards, state \in TrainStates,
          i \in IntrinsicRewards :
        LET time_step == [observation |-> observation, prev_action |-> PrevAction,
                          reward |-> reward]
            policy_step == rollout(agent, time_step, state, FALSE, i)
        IN /\ ret' = [op |-> "rollout", with_experience |-> FALSE, state |-> state,
                      policy_step |-> policy_step]
           /\ step' = [reward |-> reward, info |-> policy_step.info,
                       with_experience |-> FALSE,
                       collected |-> Collected(reward, policy_step.info),
                       preprocessed |-> FALSE]
    /\ UNCHANGED <<args, agent, exp>>

\* The driver stores the step as an experience in the replay buffer.  A step
\* replayed from a preprocessed experience is not stored again, so a reward is
\* composed at most once and stays bounded.
Observe ==
    /\ step # None
    /\ ~step.preprocessed
    /\ exp = None
    /\ exp' = [reward |-> step.reward, info |-> step.info,
               collected |-> step.collected, preprocessed |-> FALSE]
    /\ step' = None
    /\ UNCHANGED <<args, agent, ret>>

\* preprocess_experience(exp), once for a stored experience
PreprocessExperience ==
    /\ exp # None
    /\ ~exp.preprocessed
    /\ LET r == preprocess_experience(agent, [reward |-> Object(0, exp.reward),
                                               info |-> exp.info])
       IN /\ ret' = [op |-> "preprocess_experience", external_reward |-> exp.reward,
                     info |-> exp.info, status |-> r.status, exp |-> r.exp,
                     summaries |-> r.summaries]
          /\ exp' = IF r.status = "ok"
                    THEN [exp EXCEPT !.reward = r.exp.reward.val, !.preprocessed = TRUE]
                    ELSE exp
    /\ UNCHANGED <<args, agent, step>>

\* rollout(time_step, state, with_experience=True) on a stored experience
RolloutWithExperience ==
    /\ exp # None
    /\ \E observation \in Obs, state \in TrainStates :
        LET time_step == [observation |-> observation, prev_action |-> PrevAction,
                          reward |-> exp.reward]
            policy_step == rollout(agent, time_step, state, TRUE, 0)
        IN /\ ret' = [op |-> "rollout", with_experience |-> TRUE, state |-> state,
                      policy_step |-> policy_step]
           /\ step' = [reward |-> exp.reward, info |-> policy_step.info,
                       with_experience |-> TRUE,
                       collected |-> exp.collected,
                       preprocessed |-> exp.preprocessed]
    /\ exp' = None
    /\ UNCHANGED <<args, agent>>

\* calc_training_reward(external_reward, info) on the info of the last rollout
CalcTrainingReward ==
    /\ step # None
    /\ \E external_reward \in Rewards :
        LET r == calc_training_reward(agent, Object(0, external_reward), step.info)
        IN ret' = [op |-> "calc_training_reward",
                   external_reward |-> Object(0, external_reward), info |-> step.info,
                   status |-> r.status, reward |-> r.reward, summaries |-> r.summaries]
    /\ UNCHANGED <<args, agent, step, exp>>

\* calc_loss(training_info) on the training record of the last rollout
CalcLoss ==
    /\ step # None
    /\ \E profile \in LossProfiles :
        LET training_info == [reward |-> Object(0, step.reward), info |-> step.info]
            r == calc_loss(agent, training_info, profile)
        IN ret' = [op |-> "calc_loss", training_info |-> training_info,
                   with_experience |-> step.with_experience,
                   collected |-> step.collected, preprocessed |-> step.preprocessed,
                   loss_info |-> r.loss_info, rl_training_info |-> r.rl_training_info,
                   summaries |-> r.summaries, returned |-> r.returned]
    /\ UNCHANGED <<args, agent, step, exp>>

Next ==
    \/ Construct
    \/ Predict
    \/ Rollout
    \/ Observe
    \/ PreprocessExperience
    \/ RolloutWithExperience
    \/ CalcTrainingReward
    \/ CalcLoss

\* an Agent that is constructed, then used for prediction and training
Spec == Init /\ [][Next]_vars

\* the construction of an Agent, over every combination of arguments
SpecInit == InitNew(CtorArgs) /\ [][Construct]_vars

\* ----------------------------------------------------------------- claims
\* whether a summary called `name` is among the summaries written
Emitted(summaries, name) == \E k \in DOMAIN summaries : summaries[k].name = name

\* a call of calc_training_reward that returned
RewardReturned == ret.op = "calc_training_reward" /\ ret.status = "ok"

\* the Agent of the spec's scenario: intrinsic_reward_coef 2 and
\* extrinsic_reward_coef 1, with or without a curiosity module
ScenarioAgent(icm) ==
    AgentInit([optimizer |-> Optimizer("primary"), encoding_network |-> None,
               rl_optimizer |-> None, intrinsic_curiosity_module |-> icm,
               enforce_entropy_target |-> FALSE, entropy_target_optimizer |-> None,
               intrinsic_reward_coef |-> 2, extrinsic_reward_coef |-> 1])

\* C1: calc_training_reward(r, info) returns
\* extrinsic_reward_coef * r + intrinsic_reward_coef * i for an Agent with a
\* curiosity module whose info carries the intrinsic reward i, and
\* extrinsic_reward_coef * r for an Agent without one; in tenths, r = 50,
\* i = 2 and intrinsic_reward_coef = 2 give 54.
C1_RewardComposition ==
    /\ (ret.op = "calc_training_reward" /\ agent.icm # None /\ IsTensor(ret.info.icm.reward))
          => /\ ret.status = "ok"
             /\ ret.reward.val = agent.extrinsic_reward_coef * ret.external_reward.val
                                 + agent.intrinsic_reward_coef * ret.info.icm.reward.v
    /\ (ret.op = "calc_training_reward" /\ agent.icm = None)
          => /\ ret.status = "ok"
             /\ ret.reward.val = agent.extrinsic_reward_coef * ret.external_reward.val
    /\ calc_training_reward(ScenarioAgent(Module("icm", None)), Object(0, 50),
                            [AgentInfo EXCEPT !.icm = [reward |-> Tensor(2), loss |-> Empty]]
                           ).reward.val = 54
    /\ calc_training_reward(ScenarioAgent(None), Object(0, 50), AgentInfo).reward.val = 50

\* C1 witness: a reward of 1 was composed with an intrinsic reward of 1 under
\* extrinsic_reward_coef 0 and intrinsic_reward_coef 1
C1_Witness ==
    /\ RewardReturned
    /\ agent.icm # None
    /\ agent.extrinsic_reward_coef = 0
    /\ agent.intrinsic_reward_coef = 1
    /\ ret.external_reward.val = 1
    /\ ret.info.icm.reward.v = 1
    /\ ret.reward.val = 1

\* C2: when calc_training_reward returns, "reward/overall" is written exactly
\* when the reward was modified: with extrinsic_reward_coef 1 and no curiosity
\* module the returned reward is the input object itself and no
\* "reward/overall" is written; in every other configuration the returned
\* reward is another object than the input and "reward/overall" is written.
\* "reward/icm" is written exactly when a curiosity module is configured.
C2_OverallSummaryIffModified ==
    RewardReturned =>
        /\ (agent.extrinsic_reward_coef = 1 /\ agent.icm = None)
              => /\ ret.reward = ret.external_reward
                 /\ ~Emitted(ret.summaries, "reward/overall")
        /\ ~(agent.extrinsic_reward_coef = 1 /\ agent.icm = None)
              => /\ ret.reward.id # ret.external_reward.id
                 /\ Emitted(ret.summaries, "reward/overall")
        /\ Emitted(ret.summaries, "reward/icm") <=> agent.icm # None

\* C2 witness: a reward of 0 scaled by extrinsic_reward_coef 0, without a
\* curiosity module: the value is the input's, the object is not
C2_Witness ==
    /\ RewardReturned
    /\ agent.icm = None
    /\ agent.extrinsic_reward_coef = 0
    /\ ret.external_reward.val = 0
    /\ ret.reward.val = 0
    /\ Emitted(ret.summaries, "reward/overall")

\* the sub-algorithms that take part in calc_loss
Active ==
    {"rl"} \cup (IF agent.icm # None THEN {"icm"} ELSE {})
           \cup (IF agent.entropy_target_algorithm # None THEN {"entropy_target"} ELSE {})

\* a loss as a number: a placeholder counts as zero
Val(x) == IF IsTensor(x) THEN x.v ELSE 0

\* the sum, over the active sub-algorithms, of the `field` of the LossInfo
\* each returned
TotalReturned(field) ==
    Val(ret.returned.rl[field])
    + (IF "icm" \in Active THEN Val(ret.returned.icm[field]) ELSE 0)
    + (IF "entropy_target" \in Active THEN Val(ret.returned.entropy_target[field]) ELSE 0)

\* C3: the loss and the scalar_loss calc_loss returns are the sums of those
\* returned by the calc_loss of every active sub-algorithm (a tensor whenever
\* one of them is a tensor), none dropped; with neither a curiosity module nor
\* an entropy controller they are the policy's.
C3_LossIsSumOfActive ==
    ret.op = "calc_loss" =>
        /\ \A field \in {"loss", "scalar_loss"} :
              IF \E name \in Active : IsTensor(ret.returned[name][field])
              THEN ret.loss_info[field] = Tensor(TotalReturned(field))
              ELSE ret.loss_info[field] = ret.returned.rl[field]
        /\ Active = {"rl"}
              => /\ ret.loss_info.loss = ret.returned.rl.loss
                 /\ ret.loss_info.scalar_loss = ret.returned.rl.scalar_loss

\* C3 witness: policy, curiosity module and entropy controller each returned a
\* tensor loss, and the aggregate is their sum
C3_Witness ==
    /\ ret.op = "calc_loss"
    /\ Active = {"rl", "icm", "entropy_target"}
    /\ \A name \in Active : IsTensor(ret.returned[name].loss) /\ ret.returned[name].loss.v > 0
    /\ ret.loss_info.loss.v = ret.returned.rl.loss.v + ret.returned.icm.loss.v
                              + ret.returned.entropy_target.loss.v

\* C4: a placeholder reward or loss of a sub-algorithm counts as absent and
\* the operation completes: calc_loss leaves the reward as it is and a
\* placeholder sub-loss adds nothing; calc_training_reward and
\* preprocess_experience, given an info whose curiosity reward is a
\* placeholder, return the extrinsic-only reward instead of raising.
C4_PlaceholderIsAbsent ==
    /\ (ret.op = "calc_loss" /\ agent.icm # None /\ ~IsTensor(ret.training_info.info.icm.reward))
          => ret.rl_training_info.reward = ret.training_info.reward
    /\ (ret.op = "calc_loss" /\ agent.icm # None /\ ~IsTensor(ret.returned.icm.loss))
          => Val(ret.loss_info.loss) = Val(ret.returned.rl.loss)
                + (IF "entropy_target" \in Active
                   THEN Val(ret.returned.entropy_target.loss) ELSE 0)
    /\ (ret.op = "calc_training_reward" /\ agent.icm # None /\ ~IsTensor(ret.info.icm.reward))
          => /\ ret.status = "ok"
             /\ ret.reward.val = agent.extrinsic_reward_coef * ret.external_reward.val
    /\ (ret.op = "preprocess_experience" /\ agent.icm # None /\ ~IsTensor(ret.info.icm.reward))
          => /\ ret.status = "ok"
             /\ ret.exp.reward.val = agent.extrinsic_reward_coef * ret.external_reward

\* the calls of the curiosity module among the calls of the last operation
IcmCalls == {k \in DOMAIN ret.policy_step.calls : ret.policy_step.calls[k].alg = "icm"}

\* C5: a rollout of an Agent with a curiosity module calls the module's
\* train_step once, with calc_intrinsic_reward true if and only if
\* with_experience is false.
C5_IntrinsicRewardIffLive ==
    (ret.op = "rollout" /\ agent.icm # None) =>
        /\ Cardinality(IcmCalls) = 1
        /\ \A k \in IcmCalls :
              /\ ret.policy_step.calls[k].op = "train_step"
              /\ ret.policy_step.calls[k].calc_intrinsic_reward <=> ~ret.with_experience

\* C5 witness: a rollout with with_experience=True whose curiosity module was
\* told not to compute the intrinsic reward
C5_Witness ==
    /\ ret.op = "rollout"
    /\ agent.icm # None
    /\ ret.with_experience
    /\ \E k \in IcmCalls : ~ret.policy_step.calls[k].calc_intrinsic_reward

\* the keys of a record
Keys(record) == DOMAIN record

\* C6, as claimed: with the policy and a curiosity module active and no
\* entropy controller, the extra calc_loss returns has the keys rl and icm
\* only; no entropy_target key is present.
C6_ExtraKeysOnlyActive ==
    (ret.op = "calc_loss" /\ Active = {"rl", "icm"})
        => Keys(ret.loss_info.extra) = {"rl", "icm"}

\* C6, amended: the extra calc_loss returns always has the three fields rl,
\* icm and entropy_target; the field of an active sub-algorithm holds the
\* extra that sub-algorithm's calc_loss returned, the field of an absent one
\* holds the default ().  With the policy and a curiosity module active and
\* no entropy controller, entropy_target is present and holds ().
C6_ExtraFieldsByActive ==
    ret.op = "calc_loss" =>
        /\ Keys(ret.loss_info.extra) = {"rl", "icm", "entropy_target"}
        /\ \A name \in Keys(ret.loss_info.extra) :
              ret.loss_info.extra[name] =
                  IF name \in Active THEN ret.returned[name].extra ELSE Empty

\* C6 witness: policy and curiosity module active, no entropy controller; rl
\* and icm hold the extras returned, entropy_target holds ()
C6_Witness ==
    /\ ret.op = "calc_loss"
    /\ Active = {"rl", "icm"}
    /\ ret.loss_info.extra.rl = [t |-> "ActorCriticLossInfo", v |-> 0]
    /\ ret.loss_info.extra.icm = [t |-> "ICMInfo", v |-> 0]
    /\ ret.loss_info.extra.entropy_target = Empty

\* the fields of a composite record that hold something
Populated(record) == {f \in DOMAIN record : record[f] # Empty}

\* C7: the shape of the composite state is fixed by the sub-algorithms
\* instantiated at construction: train_state_spec has rl, and icm exactly
\* when a curiosity module was supplied; every AgentState rollout returns has
\* rl, and icm exactly when a curiosity module is configured; every AgentInfo
\* it returns has rl, icm exactly when a curiosity module is configured, and
\* entropy_target exactly when entropy-target control is enabled.
C7_ShapeFixedAtConstruction ==
    LET icm == IF args.intrinsic_curiosity_module # None THEN {"icm"} ELSE {}
        entropy_target == IF args.enforce_entropy_target THEN {"entropy_target"} ELSE {}
    IN /\ agent # None
          => /\ Populated(agent.train_state_spec) = {"rl"} \cup icm
             /\ Populated(agent.predict_state_spec) = {"rl"}
       /\ ret.op = "rollout"
          => /\ Populated(ret.policy_step.state) = {"rl"} \cup icm
             /\ Populated(ret.policy_step.state) = Populated(agent.train_state_spec)
             /\ Populated(ret.policy_step.info) = {"rl"} \cup icm \cup entropy_target

\* C7 witness: a rollout, threaded from the state of an earlier rollout, of an
\* Agent with a curiosity module and without entropy-target control
C7_Witness ==
    /\ ret.op = "rollout"
    /\ ret.state # ZeroState(agent.train_state_spec)
    /\ args.intrinsic_curiosity_module # None
    /\ ~args.enforce_entropy_target
    /\ Populated(ret.policy_step.state) = {"rl", "icm"}
    /\ Populated(ret.policy_step.info) = {"rl", "icm"}

\* the observation the policy is to be given
Encoded(observation) ==
    IF agent.encoding_network # None THEN encoding_network(observation) ELSE observation

\* what predict may call: the encoder if there is one, then the policy's
\* predict on the encoded observation and the rl sub-state
PredictCalls ==
    (IF agent.encoding_network # None
     THEN <<[alg |-> "encoding_network", op |-> "call"]>> ELSE <<>>)
    \o <<[alg |-> "rl", op |-> "predict", observation |-> Encoded(ret.observation),
          state |-> ret.state.rl]>>

\* predict returned what the policy's predict returns, with icm empty
PredictDelegates ==
    ret.op = "predict" =>
        /\ ret.policy_step.calls = PredictCalls
        /\ ret.policy_step.action = rl_predict(Encoded(ret.observation), ret.state.rl).action
        /\ ret.policy_step.state.rl = rl_predict(Encoded(ret.observation), ret.state.rl).state
        /\ ret.policy_step.state.icm = Empty

\* a step that is a call of predict
PredictStep == ret' # ret /\ ret'.op = "predict"

\* C8: predict has no side effects: it calls only the encoder (if any) and the
\* policy's predict with the rl sub-state, never the curiosity module or the
\* entropy controller; it changes no field of the Agent, nor the training
\* record, nor the stored experience; two successive calls with the same
\* observation and state return the same action and the same AgentState (rl
\* the policy's new state, icm empty).
C8_PredictNoSideEffects ==
    /\ [](PredictDelegates)
    /\ [][PredictStep => UNCHANGED <<args, agent, step, exp>>]_vars
    /\ [][(ret.op = "predict" /\ ret'.op = "predict"
           /\ ret'.observation = ret.observation /\ ret'.state = ret.state)
          => ret'.policy_step = ret.policy_step]_vars

\* C8 witness: predict on an Agent with an encoder, a curiosity module and an
\* entropy controller, after a rollout has been made
C8_Witness ==
    /\ ret.op = "predict"
    /\ step # None
    /\ agent.encoding_network # None
    /\ agent.icm # None
    /\ agent.entropy_target_algorithm # None
    /\ Len(ret.policy_step.calls) = 2

\* the blend of a reward and the intrinsic reward collected with it
Blended(collected) ==
    agent.extrinsic_reward_coef * collected.reward
    + agent.intrinsic_reward_coef * collected.intrinsic.v

\* calc_loss on the live path: after a rollout with with_experience=False
LivePath == ret.op = "calc_loss" /\ ~ret.with_experience

\* calc_loss on the replay path: after collection, preprocess_experience on
\* the stored experience and a rollout with with_experience=True
ReplayPath == ret.op = "calc_loss" /\ ret.with_experience /\ ret.preprocessed

\* C9: for an Agent with a curiosity module, the reward handed to the policy's
\* calc_loss is the blend extrinsic_reward_coef * r + intrinsic_reward_coef * i
\* of the external reward r and the intrinsic reward i collected with it, on
\* the live path and on the replay path alike: the intrinsic reward is added
\* once, never twice and never left out.
C9_SameRewardOnBothPaths ==
    (agent # None /\ agent.icm # None /\ (LivePath \/ ReplayPath))
        => /\ IsTensor(ret.collected.intrinsic)
           /\ ret.rl_training_info.reward.val = Blended(ret.collected)

\* C9 witness: the replay path ended in calc_loss with the blend of r = 1 and
\* i = 1 under both coefficients 1, which is 2 (twice added would be 3)
C9_Witness ==
    /\ ReplayPath
    /\ agent.icm # None
    /\ agent.extrinsic_reward_coef = 1
    /\ agent.intrinsic_reward_coef = 1
    /\ ret.collected.reward = 1
    /\ ret.collected.intrinsic = Tensor(1)
    /\ ret.rl_training_info.reward.val = 2

\* the sub-algorithms the Agent instantiated
Instantiated ==
    {m \in {agent.rl_algorithm, agent.icm, agent.entropy_target_algorithm} : m # None}

\* the places of module m in the parameter groups
Places(m) ==
    {<<k, j>> \in (DOMAIN agent.module_sets) \X (1..4) :
        j \in DOMAIN agent.module_sets[k] /\ agent.module_sets[k][j] = m}

\* the members of parameter group k
Group(k) == {agent.module_sets[k][j] : j \in DOMAIN agent.module_sets[k]}

\* C10: after construction the optimizers and the parameter groups are lists
\* of one length, aligned by index; group 1, the primary optimizer's, holds
\* the encoding network and exactly the instantiated sub-algorithms without
\* an optimizer of their own; every sub-algorithm with its own optimizer is
\* alone in a group paired with that optimizer; every instantiated
\* sub-algorithm is in exactly one group.
C10_OptimizerGroups ==
    agent # None =>
        /\ Len(agent.optimizers) = Len(agent.module_sets)
        /\ agent.optimizers[1] = args.optimizer
        /\ agent.module_sets[1][1] = args.encoding_network
        /\ Group(1) = {args.encoding_network} \cup {m \in Instantiated : m.optimizer = None}
        /\ \A k \in 2..Len(agent.module_sets) :
              \E m \in Instantiated :
                  /\ m.optimizer # None
                  /\ agent.module_sets[k] = <<m>>
                  /\ agent.optimizers[k] = m.optimizer
        /\ \A m \in Instantiated : Cardinality(Places(m)) = 1

\* C10 witness: an Agent with an encoder whose policy and curiosity module
\* bring their own optimizers and whose entropy controller does not
C10_Witness ==
    /\ agent # None
    /\ agent.encoding_network # None
    /\ Len(agent.optimizers) = 3
    /\ agent.module_sets[1] = <<agent.encoding_network, agent.entropy_target_algorithm>>
    /\ agent.module_sets[2] = <<agent.rl_algorithm>>
    /\ agent.module_sets[3] = <<agent.icm>>

====
